---- MODULE Spec2Model ----
(***************************************************************************)
(* Model of src/app.py: the sales dashboard script.                        *)
(*                                                                         *)
(* The script is re-executed top to bottom on every UI interaction.  One   *)
(* execution is: load_data() (memoised), build_transactions_table(df)      *)
(* (memoised), the sidebar date picker, the two date filters, and the four *)
(* tabs with their aggregates.  st.stop() ends the execution, an uncaught  *)
(* Python exception ends it with an error.                                 *)
(*                                                                         *)
(* A DataFrame is [cols, index, rows]: the set of column names, the        *)
(* sequence of index labels and the sequence of rows, each row a function  *)
(* from cols to cells.  Real-valued columns are modelled by integers.      *)
(***************************************************************************)
EXTENDS Integers, Sequences, FiniteSets, TLC

VARIABLES
    zips,          \* the archives on disk: file name -> archive
    pc,            \* position of the running script
    load_cache,    \* st.cache_data store of load_data
    tx_cache,      \* st.cache_data store of build_transactions_table
    reads,         \* archives opened by the current execution (file names)
    df,            \* line 79
    df_tx,         \* line 99
    date_range,    \* line 116: the (start day, end day) picked in the sidebar
    df_f,          \* line 126
    df_tx_f,       \* line 127
    out,           \* what the tabs computed and displayed
    shown          \* the st.error message or the exception that ended the execution

vars == <<zips, pc, load_cache, tx_cache, reads, df, df_tx, date_range, df_f, df_tx_f, out, shown>>

----------------------------------------------------------------------------
(* Bounds of the model                                                     *)

\* rows in the two source payloads together
MaxRows == 3
\* clock ticks per second: timestamps are resolved to 1/SubSecond of a second
SubSecond == 2

----------------------------------------------------------------------------
(* Cells                                                                   *)

NoValue == [k |-> "none"]                        \* a Python name not yet bound
NaN == [k |-> "nan"]                             \* missing float / object cell
NaT == [k |-> "nat"]                             \* missing datetime64 cell
NA  == [k |-> "na"]                              \* missing Int64 cell
Num(n) == [k |-> "num", v |-> n]                 \* a number (text of one in a csv)
Str(s) == [k |-> "str", s |-> s]                 \* any other text
DateText(y, m, d, t) == [k |-> "date", y |-> y, m |-> m, d |-> d, t |-> t]
                                                 \* text of a date, t ticks after midnight; a column
                                                 \* holds its dates in one format
Ts(day, tod) == [k |-> "ts", day |-> day, tod |-> tod]
                                                 \* pd.Timestamp: days since 1970-01-01, ticks after midnight

IsMissing(c) == c.k \in {"nan", "nat", "na"}

SecondsPerDay == 86400
DayTicks == SecondsPerDay * SubSecond

----------------------------------------------------------------------------
(* The proleptic Gregorian calendar of pandas' datetime64                  *)

DaysFromCivil(y, m, d) ==
    LET yy  == IF m <= 2 THEN y - 1 ELSE y
        era == yy \div 400
        yoe == yy - era * 400
        mp  == IF m > 2 THEN m - 3 ELSE m + 9
        doy == (153 * mp + 2) \div 5 + d - 1
        doe == yoe * 365 + yoe \div 4 - yoe \div 100 + doy
    IN  era * 146097 + doe - 719468

CivilFromDays(z) ==
    LET zz  == z + 719468
        era == zz \div 146097
        doe == zz - era * 146097
        yoe == (doe - doe \div 1460 + doe \div 36524 - doe \div 146096) \div 365
        doy == doe - (365 * yoe + yoe \div 4 - yoe \div 100)
        mp  == (5 * doy + 2) \div 153
        d   == doy - (153 * mp + 2) \div 5 + 1
        m   == IF mp < 10 THEN mp + 3 ELSE mp - 9
        y   == yoe + era * 400 + (IF m <= 2 THEN 1 ELSE 0)
    IN  [y |-> y, m |-> m, d |-> d]

\* Series.dt.year / Series.dt.month of one timestamp
DtYear(ts) == CivilFromDays(ts.day).y
DtMonth(ts) == CivilFromDays(ts.day).m

\* Monday = 1 .. Sunday = 7; 1970-01-01 was a Thursday
IsoWeekday(day) == ((day + 3) % 7) + 1

\* number of ISO weeks of year y (52 or 53)
IsoWeeksInYear(y) ==
    LET p(x) == (x + x \div 4 - x \div 100 + x \div 400) % 7
    IN  IF p(y) = 4 \/ p(y - 1) = 3 THEN 53 ELSE 52

\* Series.dt.isocalendar().week of one timestamp
IsoWeek(ts) ==
    LET y   == DtYear(ts)
        doy == ts.day - DaysFromCivil(y, 1, 1) + 1
        w   == (doy - IsoWeekday(ts.day) + 10) \div 7
    IN  IF w < 1 THEN IsoWeeksInYear(y - 1)
        ELSE IF w > IsoWeeksInYear(y) THEN 1
        ELSE w

----------------------------------------------------------------------------
(* Column conversions of load_data                                         *)

\* pd.to_datetime(x, errors="coerce") of one cell
ToDatetime(c) ==
    IF c.k = "date" THEN Ts(DaysFromCivil(c.y, c.m, c.d), c.t)
    ELSE IF c.k = "ts" THEN c
    ELSE NaT

\* pd.to_numeric(x, errors="coerce") of one cell
ToNumeric(c) == IF c.k = "num" THEN c ELSE NaN

\* .astype("Int64")
AsInt64(c) == IF c.k = "num" THEN c ELSE NA

\* .fillna(v)
FillNa(c, v) == IF IsMissing(c) THEN Num(v) ELSE c

----------------------------------------------------------------------------
(* DataFrames                                                              *)

RECURSIVE SeqFilter(_, _)
\* the positions i of 1..n, ascending, with keep[i]
SeqFilter(keep, n) ==
    IF n = 0 THEN <<>>
    ELSE IF keep[n] THEN Append(SeqFilter(keep, n - 1), n)
    ELSE SeqFilter(keep, n - 1)

RangeIndex(n) == [i \in 1..n |-> i - 1]

NRows(t) == Len(t.rows)

\* df[mask]: the rows picked keep their index labels
Select(t, keep) ==
    LET pos == SeqFilter(keep, NRows(t))
    IN  [cols  |-> t.cols,
         index |-> [j \in 1..Len(pos) |-> t.index[pos[j]]],
         rows  |-> [j \in 1..Len(pos) |-> t.rows[pos[j]]]]

\* df[cols]
Project(t, cs) ==
    [cols |-> cs, index |-> t.index,
     rows |-> [i \in 1..NRows(t) |-> [c \in cs |-> t.rows[i][c]]]]

\* df.drop(columns=cs)
DropColumns(t, cs) == Project(t, t.cols \ cs)

\* df[c], the cells of one column
Column(t, c) == [i \in 1..NRows(t) |-> t.rows[i][c]]

\* df[c] = values
Assign(t, c, values) ==
    [cols |-> t.cols \cup {c}, index |-> t.index,
     rows |-> [i \in 1..NRows(t) |->
                [x \in t.cols \cup {c} |-> IF x = c THEN values[i] ELSE t.rows[i][x]]]]

\* the rows of t over the columns cs, NaN where t has no such column
Reindexed(t, cs) ==
    [i \in 1..NRows(t) |-> [c \in cs |-> IF c \in t.cols THEN t.rows[i][c] ELSE NaN]]

\* a plausible slip: pd.concat([a, b]) without ignore_index
ConcatKeepIndex(a, b) ==
    [cols  |-> a.cols \cup b.cols,
     index |-> a.index \o b.index,
     rows  |-> Reindexed(a, a.cols \cup b.cols) \o Reindexed(b, a.cols \cup b.cols)]

\* pd.concat([a, b], ignore_index=True)
Concat(a, b) ==
    [cols  |-> a.cols \cup b.cols,
     index |-> RangeIndex(NRows(a) + NRows(b)),
     rows  |-> Reindexed(a, a.cols \cup b.cols) \o Reindexed(b, a.cols \cup b.cols)]

----------------------------------------------------------------------------
(* read_csv_from_zip (lines 17-39)                                         *)

\* str.lower() on the file extensions that occur
Lower(s) == CASE s = "CSV" -> "csv" [] s = "Csv" -> "csv" [] s = "TXT" -> "txt" [] OTHER -> s

\* i.filename.lower().endswith(".csv")
IsCsvName(filename) == Lower(filename.ext) = "csv"

\* a plausible slip: the first csv entry taken, whatever its size
FirstInfo(infos, n) == infos[1]

RECURSIVE MaxBySize(_, _)
\* max(infos, key=lambda i: i.file_size): the first entry of largest size
MaxBySize(infos, n) ==
    IF n = 1 THEN infos[1]
    ELSE LET m == MaxBySize(infos, n - 1)
         IN  IF infos[n].file_size > m.file_size THEN infos[n] ELSE m

\* pd.read_csv(f): the payload's header and records under a fresh RangeIndex
ReadCsv(payload) ==
    [cols |-> payload.cols, index |-> RangeIndex(Len(payload.rows)), rows |-> payload.rows]

Stopped(why) == [status |-> "stop", error |-> why]
Raised(why) == [status |-> "raise", error |-> why]
Returned(v) == [status |-> "ok", value |-> v]

read_csv_from_zip(zip) ==
    IF ~zip.exists THEN Stopped("missing")
    ELSE LET all   == zip.infolist
             pos   == SeqFilter([i \in 1..Len(all) |-> IsCsvName(all[i].filename)], Len(all))
             infos == [j \in 1..Len(pos) |-> all[pos[j]]]
         IN  IF Len(infos) = 0 THEN Stopped("nocsv")
             ELSE LET best == MaxBySize(infos, Len(infos))
                  IN  IF best.file_size = 0 THEN Stopped("empty")
                      ELSE Returned(ReadCsv(best.payload))

----------------------------------------------------------------------------
(* load_data (lines 46-77), without its cache                              *)

Part1 == "parte_1.zip"
Part2 == "parte_2.zip"

\* lines 59-60
DropSavedIndex(t) ==
    IF "Unnamed: 0" \in t.cols THEN DropColumns(t, {"Unnamed: 0"}) ELSE t

\* line 62
ParseDate(t) ==
    Assign(t, "date", [i \in 1..NRows(t) |-> ToDatetime(t.rows[i]["date"])])

\* line 65
CoerceStore(t) ==
    Assign(t, "store_nbr", [i \in 1..NRows(t) |-> AsInt64(ToNumeric(t.rows[i]["store_nbr"]))])

\* line 66
CoerceSales(t) ==
    Assign(t, "sales", [i \in 1..NRows(t) |-> FillNa(ToNumeric(t.rows[i]["sales"]), 0)])

\* line 67
CoercePromotion(t) ==
    Assign(t, "onpromotion",
           [i \in 1..NRows(t) |-> FillNa(ToNumeric(t.rows[i]["onpromotion"]), 0)])

\* lines 69-70: .dt.year is NaN where the date is NaT
DeriveYear(t) ==
    IF "year" \in t.cols THEN t
    ELSE Assign(t, "year", [i \in 1..NRows(t) |->
                              IF t.rows[i]["date"] = NaT THEN NaN
                              ELSE Num(DtYear(t.rows[i]["date"]))])

\* lines 71-72
DeriveMonth(t) ==
    IF "month" \in t.cols THEN t
    ELSE Assign(t, "month", [i \in 1..NRows(t) |->
                               IF t.rows[i]["date"] = NaT THEN NaN
                               ELSE Num(DtMonth(t.rows[i]["date"]))])

HasNaT(t) == \E i \in 1..NRows(t) : t.rows[i]["date"] = NaT

\* lines 73-74: .astype(int) of a week column holding <NA> raises ValueError
DeriveWeek(t) ==
    IF "week" \in t.cols THEN Returned(t)
    ELSE IF HasNaT(t) THEN Raised("ValueError")
    ELSE Returned(Assign(t, "week", [i \in 1..NRows(t) |-> Num(IsoWeek(t.rows[i]["date"]))]))

\* lines 62-77 on a table that has the four columns they read
Coerce(t) ==
    DeriveWeek(DeriveMonth(DeriveYear(CoercePromotion(CoerceSales(CoerceStore(ParseDate(t)))))))

\* lines 59-77 on the concatenated table
Normalise(t) ==
    IF {"date", "store_nbr", "sales", "onpromotion"} \ DropSavedIndex(t).cols # {}
    THEN Raised("KeyError")
    ELSE Coerce(DropSavedIndex(t))

\* a plausible slip: a failed second archive falls back to the first one's table
load_data_partial(z) ==
    LET r1 == read_csv_from_zip(z[Part1])
        r2 == read_csv_from_zip(z[Part2])
        o1 == IF z[Part1].exists THEN <<Part1>> ELSE <<>>
        o2 == IF z[Part2].exists THEN Append(o1, Part2) ELSE o1
    IN  IF r1.status # "ok" THEN [res |-> r1, opened |-> o1]
        ELSE IF r2.status # "ok" THEN [res |-> Normalise(r1.value), opened |-> o2]
        ELSE [res |-> Normalise(Concat(r1.value, r2.value)), opened |-> o2]

\* the body of load_data: what it yields and which archives it opened
load_data(z) ==
    LET r1 == read_csv_from_zip(z[Part1])
        o1 == IF z[Part1].exists THEN <<Part1>> ELSE <<>>
    IN  IF r1.status # "ok" THEN [res |-> r1, opened |-> o1]
        ELSE
        LET r2 == read_csv_from_zip(z[Part2])
            o2 == IF z[Part2].exists THEN Append(o1, Part2) ELSE o1
        IN  IF r2.status # "ok" THEN [res |-> r2, opened |-> o2]
            ELSE [res |-> Normalise(Concat(r1.value, r2.value)), opened |-> o2]

----------------------------------------------------------------------------
(* build_transactions_table (lines 91-97), without its cache               *)

TxColumns == {"date", "store_nbr", "state", "city", "transactions", "year"}

\* row i repeats an earlier row on the columns of subset (missing equals missing)
IsDuplicate(t, subset, i) ==
    \E j \in 1..(i - 1) : \A c \in subset : t.rows[j][c] = t.rows[i][c]

\* a plausible slip: the duplicates are never dropped
DropDuplicatesNothing(t, subset) == t

\* a plausible slip: drop_duplicates(subset=["date"])
DropDuplicatesFirstKey(t, subset) ==
    Select(t, [i \in 1..NRows(t) |-> ~IsDuplicate(t, {"date"}, i)])

\* df.drop_duplicates(subset=...): the first row of every key is kept
DropDuplicates(t, subset) ==
    Select(t, [i \in 1..NRows(t) |-> ~IsDuplicate(t, subset, i)])

build_transactions_table(df_) ==
    LET cols == TxColumns \cap df_.cols
    IN  IF {"date", "store_nbr"} \ cols # {} THEN Raised("KeyError")
        ELSE LET base == DropDuplicates(Project(df_, cols), {"date", "store_nbr"})
             IN  IF "transactions" \notin cols THEN Raised("KeyError")
                 ELSE Returned(Assign(base, "transactions",
                                      [i \in 1..NRows(base) |->
                                          FillNa(ToNumeric(base.rows[i]["transactions"]), 0)]))

----------------------------------------------------------------------------
(* The sidebar and the date filter (lines 108-127)                         *)

TsLeq(a, b) == a.day < b.day \/ (a.day = b.day /\ a.tod <= b.tod)

\* ts + pd.Timedelta of n ticks (n may be negative)
TsPlus(ts, n) ==
    LET total == ts.tod + n
        carry == IF total >= 0 THEN total \div DayTicks
                 ELSE -((DayTicks - 1 - total) \div DayTicks)
    IN  Ts(ts.day + carry, total - carry * DayTicks)

\* the valid dates of a table
ValidDates(t) == {t.rows[i]["date"] : i \in {j \in 1..NRows(t) : t.rows[j]["date"].k = "ts"}}

\* df["date"].min() / .max(): NaT when there is no valid date
DateMin(t) ==
    IF ValidDates(t) = {} THEN NaT
    ELSE CHOOSE a \in ValidDates(t) : \A b \in ValidDates(t) : TsLeq(a, b)
DateMax(t) ==
    IF ValidDates(t) = {} THEN NaT
    ELSE CHOOSE a \in ValidDates(t) : \A b \in ValidDates(t) : TsLeq(b, a)

\* line 123: pd.to_datetime(date_range[0])
start_date(range) == Ts(range[1], 0)

\* line 124: pd.to_datetime(date_range[1]) + Timedelta(days=1) - Timedelta(seconds=1)
end_date(range) == TsPlus(TsPlus(Ts(range[2], 0), DayTicks), -SubSecond)

\* (df["date"] >= start_date) & (df["date"] <= end_date): NaT compares False
InRange(c, range) ==
    c.k = "ts" /\ TsLeq(start_date(range), c) /\ TsLeq(c, end_date(range))

\* lines 126-127
DateFilter(t, range) == Select(t, [i \in 1..NRows(t) |-> InRange(t.rows[i]["date"], range)])

----------------------------------------------------------------------------
(* groupby / sum / mean / sort_values / head, as the tabs use them         *)

\* the texts that occur, in str order
Alphabet == <<"BREAD", "DAIRY", "Guayaquil", "Guayas", "Pichincha", "Quito", "n/a">>
StrRank(s) == CHOOSE i \in 1..Len(Alphabet) : Alphabet[i] = s

\* the order of two cells of one column
CellLeq(a, b) ==
    CASE a.k = "num" /\ b.k = "num" -> a.v <= b.v
      [] a.k = "ts"  /\ b.k = "ts"  -> TsLeq(a, b)
      [] a.k = "str" /\ b.k = "str" -> StrRank(a.s) <= StrRank(b.s)
      [] OTHER -> a.k = "num"

RECURSIVE SortKeys(_)
\* a set of cells in ascending order
SortKeys(S) ==
    IF S = {} THEN <<>>
    ELSE LET m == CHOOSE x \in S : \A y \in S : CellLeq(x, y)
         IN  <<m>> \o SortKeys(S \ {m})

\* Series.unique() without the missing values
Unique(t, c) == {t.rows[i][c] : i \in 1..NRows(t)} \ {NaN, NaT, NA}

RECURSIVE SumUpTo(_, _)
SumUpTo(f, n) == IF n = 0 THEN 0 ELSE f[n] + SumUpTo(f, n - 1)

\* df[df[c] == v]
WhereEq(t, c, v) == Select(t, [i \in 1..NRows(t) |-> t.rows[i][c] = v])

\* df[df["onpromotion"] > 0]
OnPromotion(t) == Select(t, [i \in 1..NRows(t) |-> t.rows[i]["onpromotion"].v > 0])

\* df[c].sum(): cells that are no number count 0
ColSum(t, c) ==
    SumUpTo([i \in 1..NRows(t) |->
               IF ToNumeric(t.rows[i][c]).k = "num" THEN t.rows[i][c].v ELSE 0],
            NRows(t))

\* df[c].count(): the cells that are numbers
ColCount(t, c) == Cardinality({i \in 1..NRows(t) : ToNumeric(t.rows[i][c]).k = "num"})

\* df.groupby(key)[c].sum(): one entry per key, keys ascending, missing keys dropped
GroupSum(t, key, c) ==
    LET ks == SortKeys(Unique(t, key))
    IN  [j \in 1..Len(ks) |-> [key |-> ks[j], value |-> ColSum(WhereEq(t, key, ks[j]), c)]]

\* df.groupby(key)[c].mean(), the mean kept as sum and count
GroupMean(t, key, c) ==
    LET ks == SortKeys(Unique(t, key))
    IN  [j \in 1..Len(ks) |->
           [key |-> ks[j],
            sum |-> ColSum(WhereEq(t, key, ks[j]), c),
            count |-> ColCount(WhereEq(t, key, ks[j]), c)]]

RECURSIVE SortDesc(_)
\* sort_values(ascending=False) on the value: equal values keep their order
SortDesc(q) ==
    IF Len(q) = 0 THEN <<>>
    ELSE LET i == CHOOSE a \in 1..Len(q) :
                    /\ \A b \in 1..Len(q) : q[b].value <= q[a].value
                    /\ \A b \in 1..(a - 1) : q[b].value < q[a].value
         IN  <<q[i]>> \o SortDesc(SubSeq(q, 1, i - 1) \o SubSeq(q, i + 1, Len(q)))

\* .head(n)
HeadN(q, n) == SubSeq(q, 1, IF Len(q) < n THEN Len(q) ELSE n)

\* daily["sales"].rolling(w, min_periods=1).mean(), each mean as sum and count
Rolling(q, w) ==
    [i \in 1..Len(q) |->
       LET lo == IF i - w + 1 < 1 THEN 1 ELSE i - w + 1
       IN  [key |-> q[i].key,
            sum |-> SumUpTo([j \in 1..(i - lo + 1) |-> q[lo + j - 1].value], i - lo + 1),
            count |-> i - lo + 1]]

----------------------------------------------------------------------------
(* The four tabs (lines 137-457): every aggregate and the table it reads   *)

\* the options of the two select boxes (lines 290, 322)
StoreOptions(t) == Unique(t, "store_nbr")
StateOptions(t) == IF "state" \in t.cols THEN Unique(t, "state") ELSE {}

Tabs(d, d_f, d_tx_f, store_sel, state_sel) ==
    LET dstore    == WhereEq(d_f, "store_nbr", store_sel)
        dstate    == WhereEq(d_f, "state", state_sel)
        dstate_tx == WhereEq(d_tx_f, "state", state_sel)
        daily     == GroupSum(d_f, "date", "sales")
    IN  [store_sel      |-> store_sel,
         state_sel      |-> state_sel,
         \* tab 1
         total_stores   |-> Cardinality(Unique(d_f, "store_nbr")),
         total_products |-> Cardinality(Unique(d_f, "family")),
         total_states   |-> IF "state" \in d_f.cols THEN Cardinality(Unique(d_f, "state")) ELSE 0,
         total_months   |-> Cardinality({<<DtYear(ts), DtMonth(ts)>> : ts \in ValidDates(d_f)}),
         top_products   |-> HeadN(SortDesc(GroupSum(d, "family", "sales")), 10),
         sales_store    |-> SortDesc(GroupSum(d, "store_nbr", "sales")),
         promo_sales    |-> HeadN(SortDesc(GroupSum(OnPromotion(d), "store_nbr", "sales")), 10),
         week_mean      |-> GroupMean(d_f, "week", "sales"),
         dow_mean       |-> IF "day_of_week" \in d_f.cols
                            THEN GroupMean(d_f, "day_of_week", "sales") ELSE <<>>,
         month_mean     |-> GroupMean(d_f, "month", "sales"),
         \* tab 2
         sales_year     |-> GroupSum(dstore, "year", "sales"),
         total_products_sold |-> ColSum(dstore, "sales"),
         promo_sold     |-> ColSum(OnPromotion(dstore), "sales"),
         families_sold  |-> Cardinality(Unique(dstore, "family")),
         \* tab 3
         tx_year        |-> IF "state" \in d_f.cols
                            THEN GroupSum(dstate_tx, "year", "transactions") ELSE <<>>,
         state_store_sales |-> IF "state" \in d_f.cols
                            THEN HeadN(SortDesc(GroupSum(dstate, "store_nbr", "sales")), 10)
                            ELSE <<>>,
         top10_products_state |-> IF "state" \in d_f.cols
                            THEN HeadN(SortDesc(GroupSum(dstate, "family", "sales")), 10)
                            ELSE <<>>,
         \* tab 4
         total_sales    |-> ColSum(d_f, "sales"),
         promo_sales_4  |-> ColSum(OnPromotion(d_f), "sales"),
         daily          |-> daily,
         rolling_14     |-> Rolling(daily, 14),
         state_rank     |-> IF "state" \in d_f.cols
                            THEN HeadN(SortDesc(GroupSum(d_f, "state", "sales")), 15) ELSE <<>>]

----------------------------------------------------------------------------
(* The inputs: what the two archives may hold                              *)

BaseColumns == {"date", "store_nbr", "family", "sales", "onpromotion",
                "state", "city", "transactions"}
CalendarColumns == {"year", "month", "week"}

LastSecond == DayTicks - SubSecond       \* 23:59:59
LastTick == DayTicks - 1                 \* the last instant before midnight

Sun1Jan23 == DateText(2023, 1, 1, 0)
Mon2Jan23 == DateText(2023, 1, 2, 0)
Mon30Dec24 == DateText(2024, 12, 30, 0)
Sun3Jan21 == DateText(2021, 1, 3, 0)

StateOf(store) == IF store = Num(2) THEN Str("Guayas") ELSE Str("Pichincha")
CityOf(store) == IF store = Num(2) THEN Str("Guayaquil") ELSE Str("Quito")

\* one record of a payload
SalesRow(date, store, family, sales, promo, tx) ==
    [c \in BaseColumns |->
        CASE c = "date" -> date
          [] c = "store_nbr" -> store
          [] c = "family" -> Str(family)
          [] c = "sales" -> sales
          [] c = "onpromotion" -> promo
          [] c = "state" -> StateOf(store)
          [] c = "city" -> CityOf(store)
          [] c = "transactions" -> tx]

\* a transaction count repeated on every family of a (date, store)
RowsFanOut ==
    { SalesRow(Sun1Jan23, Num(1), "DAIRY", Num(5), Num(0), Num(50)),
      SalesRow(Sun1Jan23, Num(1), "BREAD", Num(7), Num(1), Num(50)),
      SalesRow(Sun1Jan23, Num(2), "DAIRY", Num(4), Num(2), Num(20)) }

\* transaction counts that are negative, unparseable or differ within a (date, store)
RowsTransactions ==
    { SalesRow(Sun1Jan23, Num(1), "DAIRY", Num(5), Num(0), Num(-5)),
      SalesRow(Sun1Jan23, Num(1), "BREAD", Num(7), Num(1), Str("n/a")),
      SalesRow(Mon2Jan23, Num(1), "BREAD", Num(2), Num(0), Num(8)) }

\* cells that do not parse or are empty
RowsUnparseable ==
    { SalesRow(Str("n/a"), Num(1), "DAIRY", Num(5), Num(0), Num(50)),
      SalesRow(Sun1Jan23, Str("n/a"), "BREAD", Str("n/a"), NaN, Num(50)),
      SalesRow(Mon2Jan23, Num(2), "DAIRY", NaN, Str("n/a"), Num(20)) }

\* the last second and the last instant of one day, and the next midnight
RowsInstants ==
    { SalesRow(DateText(2023, 1, 1, LastSecond), Num(1), "BREAD", Num(7), Num(1), Num(50)),
      SalesRow(DateText(2023, 1, 1, LastTick), Num(2), "DAIRY", Num(3), Num(0), Num(30)),
      SalesRow(DateText(2023, 1, 2, 0), Num(1), "DAIRY", Num(4), Num(2), Num(20)) }

\* dates in ISO week 1 of their year, week 1 of the next year, week 53 of the last
RowsCalendar ==
    { SalesRow(Mon2Jan23, Num(1), "BREAD", Num(7), Num(1), Num(50)),
      SalesRow(Mon30Dec24, Num(2), "DAIRY", Num(3), Num(0), Num(30)),
      SalesRow(Sun3Jan21, Num(1), "DAIRY", Num(4), Num(2), Num(20)) }

\* the records of the first and of the second payload
RowPairs(S) ==
    UNION {[1..k[1] -> S] \X [1..k[2] -> S] :
             k \in {x \in (0..MaxRows) \X (0..MaxRows) : x[1] + x[2] <= MaxRows}}

\* what a source that writes a column itself puts there
Supplied(c, r, i) ==
    CASE c = "Unnamed: 0" -> Num(i - 1)
      [] c = "year" -> IF r["date"].k = "date" THEN Num(r["date"].y) ELSE NaN
      [] c = "month" -> IF r["date"].k = "date" THEN Num(r["date"].m) ELSE NaN
      [] c = "week" -> IF r["date"].k = "date" THEN Num(IsoWeek(ToDatetime(r["date"]))) ELSE NaN

\* a payload: the records with the columns drop left out and the columns add written
Payload(rows, add, drop) ==
    [cols |-> (BaseColumns \ drop) \cup add,
     rows |-> [i \in 1..Len(rows) |->
                [c \in (BaseColumns \ drop) \cup add |->
                    IF c \in add THEN Supplied(c, rows[i], i) ELSE rows[i][c]]]]

NoColumns == {}

\* the (add, drop) of the first and of the second payload
Plain == <<NoColumns, NoColumns>>
SchemaPairsCalendar ==
    { <<Plain, Plain>>,
      <<<<CalendarColumns, NoColumns>>, <<CalendarColumns, NoColumns>>>>,
      <<<<{"week"}, NoColumns>>, <<{"year", "month"}, NoColumns>>>> }
SchemaPairsPartial ==
    { <<<<NoColumns, {"transactions"}>>, <<NoColumns, {"transactions"}>>>>,
      <<<<{"Unnamed: 0"}, NoColumns>>, <<NoColumns, {"state", "city"}>>>>,
      <<<<NoColumns, {"state"}>>, <<NoColumns, {"state", "transactions"}>>>> }

FileName(stem, ext) == [stem |-> stem, ext |-> ext]
ZipInfo(filename, file_size, payload) ==
    [filename |-> filename, file_size |-> file_size, payload |-> payload]

\* a stand-in for the byte size of a csv: its header and its records
CsvSize(payload) == Cardinality(payload.cols) + Len(payload.rows)

NoBytes == [cols |-> {}, rows |-> <<>>]

\* an archive holding one csv
Archive(payload) ==
    [exists |-> TRUE,
     infolist |-> <<ZipInfo(FileName("ventas", "csv"), CsvSize(payload), payload)>>]

SmallCsv == Payload(<<SalesRow(Sun1Jan23, Num(1), "DAIRY", Num(5), Num(0), Num(50))>>,
                    NoColumns, NoColumns)
LargeCsv == Payload(<<SalesRow(Sun1Jan23, Num(2), "BREAD", Num(7), Num(1), Num(20)),
                      SalesRow(Mon2Jan23, Num(2), "BREAD", Num(3), Num(0), Num(30))>>,
                    NoColumns, NoColumns)

\* archives that are absent, hold no csv, hold an empty csv, or hold several entries
ArchiveShapes ==
    { [exists |-> FALSE, infolist |-> <<>>],
      [exists |-> TRUE, infolist |-> <<>>],
      [exists |-> TRUE, infolist |-> <<ZipInfo(FileName("LEEME", "TXT"), 40, NoBytes)>>],
      [exists |-> TRUE, infolist |-> <<ZipInfo(FileName("ventas", "csv"), 0, NoBytes)>>],
      [exists |-> TRUE, infolist |-> <<ZipInfo(FileName("vacio", "csv"), 0, NoBytes),
                                       ZipInfo(FileName("LEEME", "txt"), 40, NoBytes)>>],
      Archive(SmallCsv),
      [exists |-> TRUE, infolist |-> <<ZipInfo(FileName("muestra", "csv"), CsvSize(SmallCsv), SmallCsv),
                                       ZipInfo(FileName("LEEME", "txt"), 40, NoBytes),
                                       ZipInfo(FileName("VENTAS", "CSV"), CsvSize(LargeCsv), LargeCsv)>>],
      [exists |-> TRUE, infolist |-> <<ZipInfo(FileName("respaldo", "txt"), 40, LargeCsv),
                                       ZipInfo(FileName("ventas", "Csv"), CsvSize(SmallCsv), SmallCsv)>>],
      [exists |-> TRUE, infolist |-> <<ZipInfo(FileName("vacio", "csv"), 0, NoBytes),
                                       ZipInfo(FileName("VENTAS", "CSV"), CsvSize(LargeCsv), LargeCsv),
                                       ZipInfo(FileName("muestra", "csv"), CsvSize(SmallCsv), SmallCsv)>>] }

Disk(a1, a2) == [p \in {Part1, Part2} |-> IF p = Part1 THEN a1 ELSE a2]

InputZips ==
    {Disk(a1, a2) : a1 \in ArchiveShapes, a2 \in ArchiveShapes}
    \cup
    {Disk(Archive(Payload(p[1], NoColumns, NoColumns)), Archive(Payload(p[2], NoColumns, NoColumns))) :
        p \in RowPairs(RowsFanOut) \cup RowPairs(RowsTransactions)
              \cup RowPairs(RowsUnparseable) \cup RowPairs(RowsInstants)}
    \cup
    {Disk(Archive(Payload(p[1], CalendarColumns, NoColumns)),
          Archive(Payload(p[2], CalendarColumns, NoColumns))) : p \in RowPairs(RowsUnparseable)}
    \cup
    {Disk(Archive(Payload(p[1], s[1][1], s[1][2])), Archive(Payload(p[2], s[2][1], s[2][2]))) :
        p \in RowPairs(RowsCalendar), s \in SchemaPairsCalendar}
    \cup
    {Disk(Archive(Payload(p[1], s[1][1], s[1][2])), Archive(Payload(p[2], s[2][1], s[2][2]))) :
        p \in RowPairs(RowsFanOut), s \in SchemaPairsPartial}

----------------------------------------------------------------------------
(* The script, one execution after another                                 *)

Init ==
    /\ zips \in InputZips
    /\ pc = "load"
    /\ load_cache = NoValue
    /\ tx_cache = NoValue
    /\ reads = <<>>
    /\ df = NoValue
    /\ df_tx = NoValue
    /\ date_range = NoValue
    /\ df_f = NoValue
    /\ df_tx_f = NoValue
    /\ out = NoValue
    /\ shown = NoValue

\* a plausible slip: the decorator left out, every call runs the body
CacheNever(cache, key) == FALSE

\* @st.cache_data (lines 46, 91): a stored value for this call's arguments
CacheHit(cache, key) == cache # NoValue /\ cache.key = key

Exception(kind, at) == [k |-> "exception", error |-> kind, at |-> at]
ErrorBox(why, at) == [k |-> "st.error", error |-> why, at |-> at]

\* line 79, the value is in the cache: the body does not run
LoadCached ==
    /\ pc = "load"
    /\ CacheHit(load_cache, <<>>)
    /\ df' = load_cache.value
    /\ pc' = "build"
    /\ UNCHANGED <<zips, load_cache, tx_cache, reads, df_tx, date_range, df_f, df_tx_f, out, shown>>

\* line 79, the body runs and returns: the value is stored
LoadReturns ==
    /\ pc = "load"
    /\ ~CacheHit(load_cache, <<>>)
    /\ LET r == load_data(zips)
       IN  /\ r.res.status = "ok"
           /\ reads' = r.opened
           /\ df' = r.res.value
           /\ load_cache' = [key |-> <<>>, value |-> r.res.value]
    /\ pc' = "build"
    /\ UNCHANGED <<zips, tx_cache, df_tx, date_range, df_f, df_tx_f, out, shown>>

\* line 79, read_csv_from_zip calls st.error and st.stop: the execution ends
LoadStops ==
    /\ pc = "load"
    /\ ~CacheHit(load_cache, <<>>)
    /\ LET r == load_data(zips)
       IN  /\ r.res.status = "stop"
           /\ reads' = r.opened
           /\ shown' = ErrorBox(r.res.error,
                                IF read_csv_from_zip(zips[Part1]).status = "ok"
                                THEN Part2 ELSE Part1)
    /\ pc' = "stopped"
    /\ UNCHANGED <<zips, load_cache, tx_cache, df, df_tx, date_range, df_f, df_tx_f, out>>

\* line 79, the body raises
LoadRaises ==
    /\ pc = "load"
    /\ ~CacheHit(load_cache, <<>>)
    /\ LET r == load_data(zips)
       IN  /\ r.res.status = "raise"
           /\ reads' = r.opened
           /\ shown' = Exception(r.res.error, "load_data")
    /\ pc' = "exception"
    /\ UNCHANGED <<zips, load_cache, tx_cache, df, df_tx, date_range, df_f, df_tx_f, out>>

\* line 99, the value for this df is in the cache
BuildCached ==
    /\ pc = "build"
    /\ CacheHit(tx_cache, df)
    /\ df_tx' = tx_cache.value
    /\ pc' = "sidebar"
    /\ UNCHANGED <<zips, load_cache, tx_cache, reads, df, date_range, df_f, df_tx_f, out, shown>>

\* line 99, the body runs and returns
BuildReturns ==
    /\ pc = "build"
    /\ ~CacheHit(tx_cache, df)
    /\ LET r == build_transactions_table(df)
       IN  /\ r.status = "ok"
           /\ df_tx' = r.value
           /\ tx_cache' = [key |-> df, value |-> r.value]
    /\ pc' = "sidebar"
    /\ UNCHANGED <<zips, load_cache, reads, df, date_range, df_f, df_tx_f, out, shown>>

\* line 99, the body raises
BuildRaises ==
    /\ pc = "build"
    /\ ~CacheHit(tx_cache, df)
    /\ LET r == build_transactions_table(df)
       IN  /\ r.status = "raise"
           /\ shown' = Exception(r.error, "build_transactions_table")
    /\ pc' = "exception"
    /\ UNCHANGED <<zips, load_cache, tx_cache, reads, df, df_tx, date_range, df_f, df_tx_f, out>>

\* the days that carry data: the picker offers min_date .. max_date
DaysWithData(t) == {ts.day : ts \in ValidDates(t)}

\* lines 113-124: the user has picked both ends of the range
SidebarPicks ==
    /\ pc = "sidebar"
    /\ DateMin(df) # NaT
    /\ \E d0 \in DaysWithData(df), d1 \in DaysWithData(df) :
          /\ d0 <= d1
          /\ date_range' = <<d0, d1>>
    /\ pc' = "filter"
    /\ UNCHANGED <<zips, load_cache, tx_cache, reads, df, df_tx, df_f, df_tx_f, out, shown>>

\* line 124: the user has picked only the first end, date_range[1] does not exist
SidebarHalfPicked ==
    /\ pc = "sidebar"
    /\ DateMin(df) # NaT
    /\ shown' = Exception("IndexError", "sidebar")
    /\ pc' = "exception"
    /\ UNCHANGED <<zips, load_cache, tx_cache, reads, df, df_tx, date_range, df_f, df_tx_f, out>>

\* lines 113-120: no row has a valid date, min_date is NaT and the picker rejects it
SidebarNoDate ==
    /\ pc = "sidebar"
    /\ DateMin(df) = NaT
    /\ shown' = Exception("NaT", "sidebar")
    /\ pc' = "exception"
    /\ UNCHANGED <<zips, load_cache, tx_cache, reads, df, df_tx, date_range, df_f, df_tx_f, out>>

\* lines 126-127
Filter ==
    /\ pc = "filter"
    /\ df_f' = DateFilter(df, date_range)
    /\ df_tx_f' = DateFilter(df_tx, date_range)
    /\ pc' = "tabs"
    /\ UNCHANGED <<zips, load_cache, tx_cache, reads, df, df_tx, date_range, out, shown>>

\* st.selectbox: one of the options, None when there is none
Choices(options) == IF options = {} THEN {NoValue} ELSE options

\* lines 129-457
ShowTabs ==
    /\ pc = "tabs"
    /\ \E store_sel \in Choices(StoreOptions(df_f)), state_sel \in Choices(StateOptions(df_f)) :
          out' = Tabs(df, df_f, df_tx_f, store_sel, state_sel)
    /\ pc' = "done"
    /\ UNCHANGED <<zips, load_cache, tx_cache, reads, df, df_tx, date_range, df_f, df_tx_f, shown>>

\* a UI interaction: the script runs again from the top, only the caches survive
Rerun ==
    /\ pc \in {"done", "stopped", "exception"}
    /\ pc' = "load"
    /\ reads' = <<>>
    /\ df' = NoValue
    /\ df_tx' = NoValue
    /\ date_range' = NoValue
    /\ df_f' = NoValue
    /\ df_tx_f' = NoValue
    /\ out' = NoValue
    /\ shown' = NoValue
    /\ UNCHANGED <<zips, load_cache, tx_cache>>

Next ==
    \/ LoadCached
    \/ LoadReturns
    \/ LoadStops
    \/ LoadRaises
    \/ BuildCached
    \/ BuildReturns
    \/ BuildRaises
    \/ SidebarPicks
    \/ SidebarHalfPicked
    \/ SidebarNoDate
    \/ Filter
    \/ ShowTabs
    \/ Rerun

Spec == Init /\ [][Next]_vars

----------------------------------------------------------------------------
(* What the claims speak of                                                *)

\* the table pd.read_csv made of one archive, when load_data got that far
SourceTable(p) == read_csv_from_zip(zips[p]).value

\* the (date, store_nbr) pairs of a table, and the rows holding one
Pairs(t) == {<<t.rows[i]["date"], t.rows[i]["store_nbr"]>> : i \in 1..NRows(t)}
RowsWithPair(t, p) ==
    {i \in 1..NRows(t) : <<t.rows[i]["date"], t.rows[i]["store_nbr"]>> = p}

IndexLabels(t) == {t.index[i] : i \in 1..NRows(t)}

\* C1: once build_transactions_table has returned, every (date, store_nbr) pair of
\* the unified table is on exactly one row of the Transaction Record table, and the
\* Transaction Record table has no other pair.
C1_OneRowPerPair ==
    df_tx # NoValue =>
        /\ \A p \in Pairs(df) : Cardinality(RowsWithPair(df_tx, p)) = 1
        /\ Pairs(df_tx) \subseteq Pairs(df)

\* C1 happens: a unified table with several pairs, one of them on several rows
C1_Witness ==
    /\ df_tx # NoValue
    /\ Cardinality(Pairs(df)) > 1
    /\ \E p \in Pairs(df) : Cardinality(RowsWithPair(df, p)) > 1
    /\ \E p \in Pairs(df) : p[1] = NaT

\* C2: every aggregate the tabs show is computed from the filtered views df_f and
\* df_tx_f, none from the unfiltered tables.
C2_AggregatesFromFilteredViews ==
    pc = "done" => out = Tabs(df_f, df_f, df_tx_f, out.store_sel, out.state_sel)

\* an archive read_csv_from_zip rejects: absent, without csv entry, or with empty csv
HasCsv(zip) == \E i \in 1..Len(zip.infolist) : IsCsvName(zip.infolist[i].filename)
Unusable(zip) ==
    \/ ~zip.exists
    \/ ~HasCsv(zip)
    \/ \A i \in 1..Len(zip.infolist) :
          IsCsvName(zip.infolist[i].filename) => zip.infolist[i].file_size = 0
ExpectedError(zip) ==
    IF ~zip.exists THEN "missing" ELSE IF ~HasCsv(zip) THEN "nocsv" ELSE "empty"
FirstUnusable == IF Unusable(zips[Part1]) THEN Part1 ELSE Part2

\* C3: when both archives are usable, load_data completes whatever the cells hold:
\* past line 79 there is a unified table, its date a timestamp or NaT, its store_nbr
\* an integer or <NA>, its sales and onpromotion numbers.
C3_RowFailuresNeverFatal ==
    (~Unusable(zips[Part1]) /\ ~Unusable(zips[Part2]) /\ pc # "load") =>
        /\ df # NoValue
        /\ \A i \in 1..NRows(df) :
              /\ df.rows[i]["date"].k \in {"ts", "nat"}
              /\ df.rows[i]["store_nbr"].k \in {"num", "na"}
              /\ df.rows[i]["sales"].k = "num"
              /\ df.rows[i]["onpromotion"].k = "num"

\* C4: when either archive is absent, has no csv entry or has an empty csv selected,
\* the execution stops at load_data with the error box of the first such archive, in
\* that order of tests; no unified table exists, none is cached, nothing downstream
\* has run.
C4_FatalLoad ==
    (Unusable(zips[Part1]) \/ Unusable(zips[Part2])) =>
        /\ pc \in {"load", "stopped"}
        /\ df = NoValue /\ load_cache = NoValue
        /\ df_tx = NoValue /\ tx_cache = NoValue /\ date_range = NoValue
        /\ df_f = NoValue /\ df_tx_f = NoValue /\ out = NoValue
        /\ pc = "stopped" =>
              shown = ErrorBox(ExpectedError(zips[FirstUnusable]), FirstUnusable)

\* C4 happens: the first archive was read and the second one stopped the load
C4_Witness ==
    /\ pc = "stopped"
    /\ ~Unusable(zips[Part1])
    /\ reads = <<Part1, Part2>>
    /\ shown.at = Part2

\* sum of transactions over the rows of store s
TxSum(t, s) == ColSum(WhereEq(t, "store_nbr", s), "transactions")

\* some (date, s) of t is on more than one row
FanOut(t, s) == \E p \in Pairs(t) : p[2] = s /\ Cardinality(RowsWithPair(t, p)) > 1

\* no transaction count of store s in t is negative
NonNegative(t, s) ==
    \A i \in 1..NRows(t) :
        (t.rows[i]["store_nbr"] = s /\ t.rows[i]["transactions"].k = "num")
            => t.rows[i]["transactions"].v >= 0

C6_Memoised ==
    [][load_cache # NoValue =>
          /\ load_cache' = load_cache
          /\ reads' \in {reads, <<>>}
          /\ pc = "load" => (pc' = "build" /\ df' = load_cache.value /\ reads' = <<>>)]_vars

\* C6 happens: a later execution got its table without opening an archive
C6_Witness ==
    /\ pc = "build"
    /\ load_cache # NoValue
    /\ reads = <<>>
    /\ df = load_cache.value
    /\ NRows(df) > 0

\* what lines 62-67 make of the cell of column c
Coerced(c, cell) ==
    CASE c = "date" -> ToDatetime(cell)
      [] c = "store_nbr" -> AsInt64(ToNumeric(cell))
      [] c = "sales" -> FillNa(ToNumeric(cell), 0)
      [] c = "onpromotion" -> FillNa(ToNumeric(cell), 0)
      [] OTHER -> cell

\* row i of the unified table carries the cells of row k of the source table src
SameRow(i, src, k) ==
    \A c \in src.cols \ {"Unnamed: 0"} : df.rows[i][c] = Coerced(c, src.rows[k][c])

\* C7: the unified table has the rows of the first source, then those of the second,
\* each in its order, under the index 0..n-1.
C7_ConcatOrder ==
    df # NoValue =>
        LET a == SourceTable(Part1)
            b == SourceTable(Part2)
        IN  /\ NRows(df) = NRows(a) + NRows(b)
            /\ df.index = [i \in 1..NRows(df) |-> i - 1]
            /\ \A i \in 1..NRows(a) : SameRow(i, a, i)
            /\ \A i \in 1..NRows(b) : SameRow(NRows(a) + i, b, i)

\* C7 happens: both sources have rows, and not the same ones
C7_Witness ==
    /\ df # NoValue
    /\ NRows(SourceTable(Part1)) >= 1
    /\ NRows(SourceTable(Part2)) >= 2
    /\ SourceTable(Part1).rows[1] # SourceTable(Part2).rows[1]

\* the row of t with index label x lies on a day of the selected range
OnSelectedDay(t, x) ==
    \E i \in 1..NRows(t) :
        /\ t.index[i] = x
        /\ t.rows[i]["date"].k = "ts"
        /\ date_range[1] <= t.rows[i]["date"].day
        /\ t.rows[i]["date"].day <= date_range[2]

\* C8: a row is in the filtered view exactly when its date lies on a day from the
\* start day to the end day, any instant of the end day included.
C8_WholeEndDay ==
    df_f # NoValue =>
        /\ \A x \in IndexLabels(df) : x \in IndexLabels(df_f) <=> OnSelectedDay(df, x)
        /\ \A x \in IndexLabels(df_tx) : x \in IndexLabels(df_tx_f) <=> OnSelectedDay(df_tx, x)

\* C9: build_transactions_table returns a table for every unified table, whichever
\* of its six columns the unified table has.
C9_BuildNeverRaises ==
    (df # NoValue /\ pc \notin {"load", "build"}) =>
        /\ df_tx # NoValue
        /\ df_tx.cols = TxColumns \cap df.cols

\* the source table of row i of the unified table
SourceOfRow(i) ==
    IF i <= NRows(SourceTable(Part1)) THEN SourceTable(Part1) ELSE SourceTable(Part2)

\* C10: a row with a valid date whose source wrote no year, month or week has the
\* calendar year, the calendar month and the ISO week of its date there.
C10_DerivedCalendar ==
    df # NoValue =>
        \A i \in 1..NRows(df) :
            LET d == df.rows[i]["date"]
                src == SourceOfRow(i)
            IN  d.k = "ts" =>
                  /\ "year" \notin src.cols => df.rows[i]["year"] = Num(DtYear(d))
                  /\ "month" \notin src.cols => df.rows[i]["month"] = Num(DtMonth(d))
                  /\ "week" \notin src.cols => df.rows[i]["week"] = Num(IsoWeek(d))

\* the entries of an archive, those named *.csv in any case, and the largest of those
Entries(zip) == {zip.infolist[i] : i \in 1..Len(zip.infolist)}
Matching(zip) == {e \in Entries(zip) : e.filename.ext \in {"csv", "CSV", "Csv"}}
LargestMatching(zip) ==
    {e \in Matching(zip) : \A f \in Matching(zip) : f.file_size <= e.file_size}

\* the unified table is made of the records of entry e1, then those of entry e2
MadeOf(e1, e2) ==
    /\ NRows(df) = Len(e1.payload.rows) + Len(e2.payload.rows)
    /\ \A i \in 1..Len(e1.payload.rows) : SameRow(i, e1.payload, i)
    /\ \A i \in 1..Len(e2.payload.rows) : SameRow(Len(e1.payload.rows) + i, e2.payload, i)

\* C11: of an existing archive with an entry named *.csv (in any case), the entry
\* parsed is a *.csv entry of largest size, never another entry; the load stops with
\* the empty-csv error only for an archive whose largest *.csv entry has size zero,
\* and never for an archive whose largest *.csv entry has bytes.
C11_LargestCsvParsed ==
    /\ df # NoValue =>
          \E e1 \in LargestMatching(zips[Part1]), e2 \in LargestMatching(zips[Part2]) :
              /\ e1.file_size > 0 /\ e2.file_size > 0
              /\ MadeOf(e1, e2)
    /\ pc = "stopped" =>
          /\ shown.error = "empty" =>
                /\ zips[shown.at].exists
                /\ LargestMatching(zips[shown.at]) # {}
                /\ \A e \in LargestMatching(zips[shown.at]) : e.file_size = 0
          /\ ~(/\ zips[shown.at].exists
               /\ \E e \in LargestMatching(zips[shown.at]) : e.file_size > 0)

\* C11 happens: the table was loaded from an archive that holds two *.csv entries of
\* different sizes, one of them empty or smaller, and a larger entry that is no csv
C11_Witness ==
    /\ df # NoValue
    /\ \E p \in {Part1, Part2} :
          /\ \E e \in Matching(zips[p]), f \in Matching(zips[p]) : e.file_size < f.file_size
          /\ \E g \in Entries(zips[p]) \ Matching(zips[p]) :
                \A e \in Matching(zips[p]) : e.file_size < g.file_size
    /\ \E p \in {Part1, Part2} :
          \E e \in Matching(zips[p]) : e.file_size = 0

====
